---- MODULE Spec2Model ----
(***************************************************************************)
(* Plant monitor (src/main.py): the startup connection setup and the main  *)
(* loop with its five timers, the connectivity flags, the per-sensor       *)
(* failure counters and the four averaging windows.                        *)
(*                                                                         *)
(* Calls into the outside world (WLAN, MQTT client, sensor drivers) are    *)
(* nondeterministic: every call either returns or raises, and the outcome  *)
(* is an input of the action that makes the call.  Every call made by an   *)
(* action is written to log, the trace of the step just taken.             *)
(*                                                                         *)
(* The clock is time.time() in whole seconds.  It advances in the loop's   *)
(* sleep (by a delay that also covers the time the tick's I/O took), in    *)
(* the 2-second waits of connect_wifi and in the 1-second wait after the   *)
(* startup connect_mqtt.                                                   *)
(*                                                                         *)
(* A run is explored under one of the fault scenarios of FaultScenarios:   *)
(* the kinds of outside call that can fail in the run.  Calls of the other *)
(* kinds succeed.                                                          *)
(***************************************************************************)
EXTENDS Integers, Sequences, FiniteSets, TLC

VARIABLES
    pc,                     \* position of the program
    wlan,                   \* "None" or "WLAN"
    mqtt_client,            \* "None" or "MQTTClient"
    connection_status,      \* [wifi, mqtt, last_successful_publish]
    sensor_status,          \* [dht11, bh1750, soil_moisture, oled] -> BOOLEAN
    failed_sensor_reads,    \* [dht11, bh1750, soil_moisture] -> Nat
    clock,                  \* time.time()
    current_time,           \* the tick's sample of the clock
    last_gc_time,
    last_connection_check,
    last_status_update,
    last_sensor_read_time,
    last_publish_time,
    temp_readings,
    hum_readings,
    lux_readings,
    moisture_readings,
    status,                 \* the status evaluated in the step just taken
    log,                    \* the outside calls of the step just taken
    faults                  \* the faults the environment can inject in this run

vars == <<pc, wlan, mqtt_client, connection_status, sensor_status,
          failed_sensor_reads, clock, current_time, last_gc_time,
          last_connection_check, last_status_update, last_sensor_read_time,
          last_publish_time, temp_readings, hum_readings, lux_readings,
          moisture_readings, status, log, faults>>

---------------------------------------------------------------------------
(* Program constants *)

SENSOR_READ_INTERVAL == 6
PUBLISH_INTERVAL == 60
STATUS_UPDATE_INTERVAL == 300
GC_INTERVAL == 300
CONNECTION_CHECK_INTERVAL == 60
PUBLISH_TIMEOUT == 300
FAILURE_THRESHOLD == 5
WIFI_MAX_ATTEMPTS == 10
WIFI_RETRY_SLEEP == 2
MQTT_SETTLE_SLEEP == 1
SOIL_MOISTURE_DRY == 41000
SOIL_MOISTURE_WET == 18000

Sensors == {"dht11", "bh1750", "soil_moisture"}
Devices == Sensors \cup {"oled"}

---------------------------------------------------------------------------
(* Bounds of the model *)

\* The clock stops advancing at MaxTime.
MaxTime == 710
\* A read may fail only while the sensor's counter is below MaxFails.
MaxFails == 6

\* Clock values at power-up (seconds since the epoch: beyond every interval,
\* so that each timer is due in the first tick).
StartTimes == {400}
\* Seconds a tick can take (sleep plus the time spent in the tick's calls).
Delays == {0, 30, 301}
\* The check of connect_wifi's retry loop at which the link is first seen up
\* (above 10: not within the loop).
WifiUpAt == {0, 11}
\* Values the drivers return.
TempValues == {20}
HumValues == {50}
LuxValues == {10}
RawValues == {29500}
\* The kinds of fault a run can have, and the combinations explored: a call
\* can fail only when its kind of fault is among the run's faults.
FaultKinds == {"link", "connect", "session", "oled"} \cup Sensors
FaultScenarios ==
    { {"link", "connect", "session", "oled"},
      {"dht11", "bh1750", "soil_moisture"},
      {"session", "dht11"} }
\* Outcomes of initialize_sensors: the devices that answered.
SensorInits ==
    { Devices, Devices \ {"oled"}, {"bh1750", "soil_moisture"}, {"oled"} }
\* Outcomes of the five discovery publishes.
DiscoveryOutcomes ==
    { <<TRUE, TRUE, TRUE, TRUE, TRUE>>,
      <<TRUE, FALSE, TRUE, TRUE, TRUE>>,
      <<FALSE, FALSE, FALSE, FALSE, FALSE>> }

---------------------------------------------------------------------------
(* Optional values: None, or a value *)

None == <<>>
Some(v) == <<v>>
Val(o) == o[1]

---------------------------------------------------------------------------
(* Outcomes of a call of the given kind: TRUE is success *)

Outcomes(kind) == IF kind \in faults THEN BOOLEAN ELSE {TRUE}

---------------------------------------------------------------------------
(* The connectivity part of the state, threaded through the functions that
   change it.  ret is the function's return value; raised says that an
   exception left the function uncaught. *)

Net ==
    [ wlan |-> wlan, client |-> mqtt_client, cs |-> connection_status,
      clock |-> clock, status |-> None, log |-> <<>>, ret |-> FALSE,
      raised |-> FALSE ]

Call(n, op, arg, ok) ==
    [n EXCEPT !.log = Append(@, [op |-> op, arg |-> arg, ok |-> ok,
                                  wifi |-> n.cs.wifi])]

Return(n, r) == [n EXCEPT !.ret = r]

\* Mutant: the retry loop has no limit on the number of waits.
WifiLoop_unbounded(attempt, upAt) ==
    IF attempt < upAt THEN upAt ELSE attempt

\* The retry loop of connect_wifi: wlan.isconnected() is first seen true
\* at the loop's check number upAt (counted from 0); the result is the
\* number of waits made.
RECURSIVE WifiLoop(_, _)
WifiLoop(attempt, upAt) ==
    IF attempt < upAt /\ attempt < WIFI_MAX_ATTEMPTS
    THEN WifiLoop(attempt + 1, upAt)
    ELSE attempt

\* connect_wifi: up0 is wlan.isconnected() before connecting, upAt the check
\* of the retry loop that first sees the link up, upF wlan.isconnected()
\* after the loop.
connect_wifi(n, up0, upAt, upF) ==
    LET n1 == Call([n EXCEPT !.wlan = "WLAN"], "wlan.isconnected", None, up0)
        n2 == IF ~up0
              THEN [Call(n1, "wlan.connect", None, TRUE) EXCEPT
                        !.clock = @ + WIFI_RETRY_SLEEP * WifiLoop(0, upAt)]
              ELSE n1
        n3 == Call(n2, "wlan.isconnected", None, upF)
        n4 == [n3 EXCEPT !.cs.wifi = upF]
    IN  Return(n4, upF)

\* connect_mqtt: okConn and okTest are the outcomes of mqtt_client.connect()
\* and of the test publish.
connect_mqtt(n, okConn, okTest) ==
    LET n1 == IF n.client # "None"
              THEN Call(n, "mqtt.disconnect", None, TRUE)
              ELSE n
        n2 == Call([n1 EXCEPT !.client = "MQTTClient"],
                   "mqtt.connect", None, okConn)
        failed(m) == Return([m EXCEPT !.client = "None", !.cs.mqtt = FALSE],
                            FALSE)
    IN  IF ~okConn
        THEN failed(n2)
        ELSE LET n3 == [n2 EXCEPT !.cs.mqtt = TRUE]
                 n4 == Call(n3, "mqtt.publish", <<"test", "connected">>, okTest)
             IN  IF ~okTest THEN failed(n4) ELSE Return(n4, TRUE)

is_mqtt_connected(n) == n.client # "None" /\ n.cs.mqtt

\* Mutant: a failed transport call leaves the session flag up.
safe_publish_nomark(n, topic, value, ok) ==
    IF ~(n.client # "None" /\ n.cs.mqtt)
    THEN Return(n, FALSE)
    ELSE Return(Call(n, "mqtt.publish", <<topic, value>>, ok), ok)

\* Mutant: no check of the session before the transport call.
safe_publish_open(n, topic, value, ok) ==
    LET n1 == Call(n, "mqtt.publish", <<topic, value>>, ok)
    IN  IF ok
        THEN Return(n1, TRUE)
        ELSE Return([n1 EXCEPT !.cs.mqtt = FALSE], FALSE)

\* Mutant: the guard looks at the client only, not at the session flag.
safe_publish_clientonly(n, topic, value, ok) ==
    IF n.client = "None"
    THEN Return(n, FALSE)
    ELSE LET n1 == Call(n, "mqtt.publish", <<topic, value>>, ok)
         IN  IF ok THEN Return(n1, TRUE)
             ELSE Return([n1 EXCEPT !.cs.mqtt = FALSE], FALSE)

\* safe_publish: ok is the outcome of mqtt_client.publish.
safe_publish(n, topic, value, ok) ==
    IF ~is_mqtt_connected(n)
    THEN Return(n, FALSE)
    ELSE LET n1 == Call(n, "mqtt.publish", <<topic, value>>, ok)
         IN  IF ok
             THEN Return(n1, TRUE)
             ELSE Return([n1 EXCEPT !.cs.mqtt = FALSE], FALSE)

DiscoveryIds == <<"humidity", "temperature", "lux", "soil_moisture", "status">>

RECURSIVE DiscoveryLoop(_, _, _)
DiscoveryLoop(n, i, oks) ==
    IF i > Len(DiscoveryIds)
    THEN n
    ELSE DiscoveryLoop(
             Call(n, "mqtt.publish", <<"config", DiscoveryIds[i]>>, oks[i]),
             i + 1, oks)

\* publish_discovery_config: oks are the outcomes of the five publishes.
publish_discovery_config(n, oks) ==
    IF ~is_mqtt_connected(n) \/ n.client = "None"
    THEN Call(n, "print", <<"skipping discovery config">>, TRUE)
    ELSE DiscoveryLoop(n, 1, oks)

---------------------------------------------------------------------------
(* Health evaluation *)

Count(S) == Cardinality(S)

\* Mutant: the threshold test off by one.
WorkingSensor_le(s) ==
    sensor_status[s] /\ failed_sensor_reads[s] <= FAILURE_THRESHOLD

\* The sensors counted as working / as known by publish_device_status.
WorkingSensor(s) == sensor_status[s] /\ failed_sensor_reads[s] < FAILURE_THRESHOLD
working_sensors == Count({s \in Sensors : WorkingSensor(s)})
total_sensors == Count({s \in Sensors : sensor_status[s]})

\* Mutant: the staleness test off by one.
DeviceStatus_ge(wifi, mqtt, working, total, elapsed) ==
    IF ~wifi THEN <<"WiFi Disconnected">>
    ELSE IF ~mqtt THEN <<"MQTT Disconnected">>
    ELSE IF working = 0 THEN <<"All Sensors Failed">>
    ELSE IF working < total THEN <<"Partial", working, total>>
    ELSE IF elapsed >= PUBLISH_TIMEOUT THEN <<"Publish Timeout">>
    ELSE <<"Online">>

\* The status string, from the flags, the two counts and the time since the
\* last successful publish.
DeviceStatus(wifi, mqtt, working, total, elapsed) ==
    IF ~wifi THEN <<"WiFi Disconnected">>
    ELSE IF ~mqtt THEN <<"MQTT Disconnected">>
    ELSE IF working = 0 THEN <<"All Sensors Failed">>
    ELSE IF working < total THEN <<"Partial", working, total>>
    ELSE IF elapsed > PUBLISH_TIMEOUT THEN <<"Publish Timeout">>
    ELSE <<"Online">>

\* Mutant: before the first successful publish no time counts as elapsed.
publish_device_status_fresh(n, ok) ==
    LET st == DeviceStatus(n.cs.wifi, n.cs.mqtt, working_sensors,
                           total_sensors,
                           IF n.cs.last_successful_publish = 0 THEN 0
                           ELSE n.clock - n.cs.last_successful_publish)
    IN  safe_publish([n EXCEPT !.status = st], "status", st, ok)

\* publish_device_status: ok is the outcome of the transport publish.
publish_device_status(n, ok) ==
    LET st == DeviceStatus(n.cs.wifi, n.cs.mqtt, working_sensors,
                           total_sensors,
                           n.clock - n.cs.last_successful_publish)
    IN  safe_publish([n EXCEPT !.status = st], "status", st, ok)

PublishDeviceStatus(n) ==
    { publish_device_status(n, ok) : ok \in Outcomes("session") }

---------------------------------------------------------------------------
(* Data publish *)

SensorTypes == <<"temperature", "humidity", "lux", "soil_moisture">>

RECURSIVE PublishLoop(_, _, _, _, _)
PublishLoop(n, i, values, oks, count) ==
    IF i > Len(SensorTypes)
    THEN Return(n, count)
    ELSE IF values[i] # None
         THEN LET n1 == safe_publish(n, SensorTypes[i], Val(values[i]), oks[i])
              IN  PublishLoop(n1, i + 1, values, oks,
                              IF n1.ret THEN count + 1 ELSE count)
         ELSE PublishLoop(n, i + 1, values, oks, count)

\* publish_sensor_data: values are the four optional averages, oks the
\* outcomes of the transport publishes; ret is published_count.
publish_sensor_data(n, values, oks) ==
    IF ~is_mqtt_connected(n)
    THEN Return(n, 0)
    ELSE PublishLoop(n, 1, values, oks, 0)

---------------------------------------------------------------------------
(* Averages *)

RECURSIVE Sum(_)
Sum(w) == IF w = <<>> THEN 0 ELSE Head(w) + Sum(Tail(w))

RECURSIVE Gcd(_, _)
Gcd(a, b) == IF b = 0 THEN a ELSE Gcd(b, a % b)

\* Mutant: the quotient is an integer division.
Mean_floor(w) == <<Sum(w) \div Len(w), 1>>

\* sum(w) / len(w) as a fraction in lowest terms.
Mean(w) ==
    LET g == Gcd(Sum(w), Len(w))
    IN  <<Sum(w) \div g, Len(w) \div g>>

\* Mutant: the mean is taken without the latest reading, as if the tick's
\* own reading were added after the means are computed.
Average_stale(w) ==
    IF Len(w) > 1 THEN Some(Mean(SubSeq(w, 1, Len(w) - 1))) ELSE None

Average(w) == IF w # <<>> THEN Some(Mean(w)) ELSE None

---------------------------------------------------------------------------
(* Sensors *)

Max(a, b) == IF a >= b THEN a ELSE b
Min(a, b) == IF a <= b THEN a ELSE b

\* Mutant: the raw value is not clamped to the calibration range.
get_soil_moisture_percent_unclamped(raw_value, dry, wet) ==
    ((dry - raw_value) * 100) \div (dry - wet)

\* The dividend is never negative, so that int() of the quotient is \div.
get_soil_moisture_percent(raw_value, dry, wet) ==
    LET clamped == Max(Min(raw_value, dry), wet)
    IN  ((dry - clamped) * 100) \div (dry - wet)

\* Mutant: a success leaves the counter as it is.
RecordRead_noreset(count, raised) == IF raised THEN count + 1 ELSE count

\* safe_sensor_read's effect on the sensor's counter: raised says whether
\* read_function raised.
RecordRead(count, raised) == IF raised THEN count + 1 ELSE 0

\* Mutant: a read that raised still yields the driver's value.
ReadResult_stale(s, raised, v) ==
    IF ~sensor_status[s] THEN None ELSE Some(v)

\* What a read returns: None when the driver object is missing or the read
\* raised, the driver's value otherwise.
ReadResult(s, raised, v) ==
    IF raised \/ ~sensor_status[s] THEN None ELSE Some(v)

\* The outcomes a read of sensor s can have: a driver that is missing never
\* raises (the read function returns None), a present one may.
Raises(s) ==
    IF sensor_status[s] /\ failed_sensor_reads[s] < MaxFails
    THEN { ~ok : ok \in Outcomes(s) } ELSE {FALSE}

\* list.append of a value that is not None
Store(w, o) == IF o # None THEN Append(w, Val(o)) ELSE w

\* Mutant: the window is kept.
Cleared_kept(w) == w

\* Mutant: the latest reading survives the clear.
Cleared_keeplast(w) == IF w = <<>> THEN w ELSE <<w[Len(w)]>>

\* readings_list.clear()
Cleared(w) == <<>>

---------------------------------------------------------------------------
(* Initial state: after initialize_sensors, before the connection setup *)

Init ==
    /\ pc = "connect_wifi"
    /\ wlan = "None"
    /\ mqtt_client = "None"
    /\ connection_status =
           [wifi |-> FALSE, mqtt |-> FALSE, last_successful_publish |-> 0]
    /\ \E up \in SensorInits : sensor_status = [d \in Devices |-> d \in up]
    /\ failed_sensor_reads = [s \in Sensors |-> 0]
    /\ clock \in StartTimes
    /\ current_time = 0
    /\ last_gc_time = 0
    /\ last_connection_check = 0
    /\ last_status_update = 0
    /\ last_sensor_read_time = 0
    /\ last_publish_time = 0
    /\ temp_readings = <<>>
    /\ hum_readings = <<>>
    /\ lux_readings = <<>>
    /\ moisture_readings = <<>>
    /\ status = None
    /\ log = <<>>
    /\ faults \in FaultScenarios

SetNet(n) ==
    /\ wlan' = n.wlan
    /\ mqtt_client' = n.client
    /\ connection_status' = n.cs
    /\ clock' = n.clock
    /\ status' = n.status
    /\ log' = n.log

\* The end of a step of the program: the state is n, and control goes to
\* next unless an exception is propagating, which ends the program.
Step(n, next) ==
    /\ SetNet(n)
    /\ pc' = IF n.raised THEN "crashed" ELSE next

netVars == <<wlan, mqtt_client, connection_status, clock>>
timerVars == <<last_gc_time, last_connection_check, last_status_update,
               last_sensor_read_time, last_publish_time>>
windowVars == <<temp_readings, hum_readings, lux_readings, moisture_readings>>

ConnectWifiFrom(n, upAts) ==
    { connect_wifi(n, up0, upAt, upF) :
          up0 \in Outcomes("link"), upAt \in upAts,
          upF \in Outcomes("link") }

ConnectWifi(n) ==
    ConnectWifiFrom(n, IF "link" \in faults THEN WifiUpAt ELSE {0})

ConnectMqtt(n) ==
    { connect_mqtt(n, okConn, okTest) :
          okConn \in Outcomes("connect"), okTest \in Outcomes("connect") }

PublishDiscoveryConfig(n) ==
    { publish_discovery_config(n, oks) :
          oks \in (IF "session" \in faults THEN DiscoveryOutcomes
                   ELSE {<<TRUE, TRUE, TRUE, TRUE, TRUE>>}) }

---------------------------------------------------------------------------
(* Startup connection setup *)

\* Lines 604-605: the report of a failed initial link setup.
StartupLink(n) ==
    IF ~n.ret
    THEN Call(n, "print", <<"Initial WiFi connection failed">>, TRUE)
    ELSE n

StartupWifi ==
    /\ pc = "connect_wifi"
    /\ \E n \in ConnectWifi(Net) : Step(StartupLink(n), "connect_mqtt")
    /\ UNCHANGED <<sensor_status, failed_sensor_reads, current_time,
                   timerVars, windowVars, faults>>

\* Mutant: discovery and status are attempted whatever connect_mqtt returned.
StartupSession_unconditional(n) ==
    UNION { UNION { PublishDeviceStatus(d) :
                      d \in PublishDiscoveryConfig(
                               [m EXCEPT !.clock = @ + MQTT_SETTLE_SLEEP]) }
          : m \in ConnectMqtt(n) }

\* Lines 607-612: connect_mqtt, and on success sleep, discovery and status.
StartupSession(n) ==
    UNION { IF m.ret
            THEN UNION { PublishDeviceStatus(d) :
                           d \in PublishDiscoveryConfig(
                                    [m EXCEPT !.clock = @ + MQTT_SETTLE_SLEEP]) }
            ELSE {m}
          : m \in ConnectMqtt(n) }

StartupMqtt ==
    /\ pc = "connect_mqtt"
    /\ \E n \in StartupSession(Net) : Step(n, "tick")
    /\ UNCHANGED <<sensor_status, failed_sensor_reads, current_time,
                   timerVars, windowVars, faults>>

---------------------------------------------------------------------------
(* Main loop *)

\* Mutant: an activity is due only after more than its interval.
Elapsed_strict(last, interval) == current_time - last > interval

Elapsed(last, interval) == current_time - last >= interval

\* Mutant: a failed keepalive reconnects the session at once.
check_msg_reconnect(n, ok) ==
    LET m == Call(n, "mqtt.check_msg", None, ok)
    IN  IF ok THEN m ELSE connect_mqtt([m EXCEPT !.cs.mqtt = FALSE], TRUE, TRUE)

\* Mutant: the exception of a failed keepalive is not caught.
check_msg_uncaught(n, ok) ==
    LET m == Call(n, "mqtt.check_msg", None, ok)
    IN  IF ok THEN m ELSE [m EXCEPT !.raised = TRUE]

\* Lines 654-658: the keepalive call; its exception is caught and marks the
\* session down.
check_msg(n, ok) ==
    LET m == Call(n, "mqtt.check_msg", None, ok)
    IN  IF ok THEN m ELSE [m EXCEPT !.cs.mqtt = FALSE]

\* Lines 651-659: sample the clock; keepalive when the session is up.
Keepalive ==
    /\ pc = "tick"
    /\ current_time' = clock
    /\ IF is_mqtt_connected(Net) /\ mqtt_client # "None"
       THEN \E ok \in Outcomes("session") : Step(check_msg(Net, ok), "gc")
       ELSE Step(Net, "gc")
    /\ UNCHANGED <<sensor_status, failed_sensor_reads, timerVars, windowVars,
                   faults>>

\* Lines 661-664: garbage collection.
GcStep ==
    /\ pc = "gc"
    /\ IF Elapsed(last_gc_time, GC_INTERVAL)
       THEN /\ Step(Call(Net, "gc.collect", None, TRUE), "check")
            /\ last_gc_time' = current_time
       ELSE /\ Step(Net, "check")
            /\ UNCHANGED last_gc_time
    /\ UNCHANGED <<sensor_status, failed_sensor_reads, current_time,
                   last_connection_check, last_status_update,
                   last_sensor_read_time, last_publish_time, windowVars,
                   faults>>

\* Lines 671-675: the link part of the connection check.
CheckLink(n) ==
    IF n.wlan = "None"
    THEN ConnectWifi(n)
    ELSE UNION { IF up THEN {[n EXCEPT !.cs.wifi = TRUE]} ELSE ConnectWifi(n)
                 : up \in Outcomes("link") }

\* Mutant: after a reconnect the status report comes before the discovery.
Reconnect_statusfirst(n) ==
    UNION { IF is_mqtt_connected(m)
            THEN UNION { PublishDiscoveryConfig(d) :
                           d \in PublishDeviceStatus(m) }
            ELSE {m}
          : m \in ConnectMqtt(n) }

\* Lines 684-687: reconnect, and on success discovery and status.
Reconnect(n) ==
    UNION { IF is_mqtt_connected(m)
            THEN UNION { PublishDeviceStatus(d) :
                           d \in PublishDiscoveryConfig(m) }
            ELSE {m}
          : m \in ConnectMqtt(n) }

\* Lines 677-689: the session part of the connection check.
CheckSession(n) ==
    IF n.client # "None"
    THEN UNION { LET p == Call(n, "mqtt.ping", None, ok)
                 IN  IF ok
                     THEN {[p EXCEPT !.cs.mqtt = TRUE]}
                     ELSE Reconnect([p EXCEPT !.cs.mqtt = FALSE])
                 : ok \in Outcomes("session") }
    ELSE {[n EXCEPT !.cs.mqtt = FALSE]}

\* Mutant: only a change of the link flag is reported.
ReportChange_linkonly(n, wifi_was_connected, mqtt_was_connected) ==
    IF wifi_was_connected # n.cs.wifi
    THEN PublishDeviceStatus(n)
    ELSE {n}

\* Lines 691-696: the status report on a change of either flag.
ReportChange(n, wifi_was_connected, mqtt_was_connected) ==
    IF wifi_was_connected # n.cs.wifi \/ mqtt_was_connected # n.cs.mqtt
    THEN PublishDeviceStatus(n)
    ELSE {n}

\* Lines 666-698: the connection check.
CheckStep ==
    /\ pc = "check"
    /\ IF Elapsed(last_connection_check, CONNECTION_CHECK_INTERVAL)
       THEN /\ \E l \in CheckLink(Net) :
                 \E m \in CheckSession(l) :
                   \E r \in ReportChange(m, connection_status.wifi,
                                         connection_status.mqtt) :
                     Step(r, "status")
            /\ last_connection_check' = current_time
       ELSE /\ Step(Net, "status")
            /\ UNCHANGED last_connection_check
    /\ UNCHANGED <<sensor_status, failed_sensor_reads, current_time,
                   last_gc_time, last_status_update, last_sensor_read_time,
                   last_publish_time, windowVars, faults>>

\* Lines 700-703: the periodic status report.
StatusStep ==
    /\ pc = "status"
    /\ IF Elapsed(last_status_update, STATUS_UPDATE_INTERVAL)
       THEN /\ \E n \in PublishDeviceStatus(Net) : Step(n, "read")
            /\ last_status_update' = current_time
       ELSE /\ Step(Net, "read")
            /\ UNCHANGED last_status_update
    /\ UNCHANGED <<sensor_status, failed_sensor_reads, current_time,
                   last_gc_time, last_connection_check, last_sensor_read_time,
                   last_publish_time, windowVars, faults>>

\* Lines 705-719 with read_sensors_once: read every sensor, store the values.
ReadStep ==
    /\ pc = "read"
    /\ IF Elapsed(last_sensor_read_time, SENSOR_READ_INTERVAL)
       THEN \E rd \in Raises("dht11"), rb \in Raises("bh1750"),
               rs \in Raises("soil_moisture"),
               t \in TempValues, h \in HumValues, l \in LuxValues,
               raw \in RawValues :
              LET temp == ReadResult("dht11", rd, t)
                  hum == ReadResult("dht11", rd, h)
                  lux == ReadResult("bh1750", rb, l)
                  moisture_raw == ReadResult("soil_moisture", rs, raw)
                  moisture ==
                      IF moisture_raw # None
                      THEN Some(get_soil_moisture_percent(
                                    Val(moisture_raw), SOIL_MOISTURE_DRY,
                                    SOIL_MOISTURE_WET))
                      ELSE None
              IN  /\ failed_sensor_reads' =
                         [failed_sensor_reads EXCEPT
                            !["dht11"] = RecordRead(@, rd),
                            !["bh1750"] = RecordRead(@, rb),
                            !["soil_moisture"] = RecordRead(@, rs)]
                  /\ temp_readings' = Store(temp_readings, temp)
                  /\ hum_readings' = Store(hum_readings, hum)
                  /\ lux_readings' = Store(lux_readings, lux)
                  /\ moisture_readings' = Store(moisture_readings, moisture)
                  /\ log' = << [op |-> "read", arg |-> <<"dht11", rd>>,
                                ok |-> ~rd, wifi |-> connection_status.wifi],
                               [op |-> "read", arg |-> <<"bh1750", rb>>,
                                ok |-> ~rb, wifi |-> connection_status.wifi],
                               [op |-> "read", arg |-> <<"soil_moisture", rs>>,
                                ok |-> ~rs, wifi |-> connection_status.wifi] >>
                  /\ last_sensor_read_time' = current_time
       ELSE /\ log' = <<>>
            /\ UNCHANGED <<failed_sensor_reads, windowVars,
                           last_sensor_read_time>>
    /\ status' = None
    /\ pc' = "publish"
    /\ UNCHANGED <<netVars, sensor_status, current_time, last_gc_time,
                   last_connection_check, last_status_update,
                   last_publish_time, faults>>

PublishOutcomes == [1..4 -> Outcomes("session")]

\* Mutant: the timestamp is set whatever the count.
MarkPublished_always(n, count) ==
    Call([n EXCEPT !.cs.last_successful_publish = current_time],
         "print",
         IF count > 0 THEN <<"published", count>> ELSE <<"skipping publish">>,
         TRUE)

\* Lines 741-745: the timestamp of the last successful publish.
MarkPublished(n, count) ==
    IF count > 0
    THEN Call([n EXCEPT !.cs.last_successful_publish = current_time],
              "print", <<"published", count>>, TRUE)
    ELSE Call(n, "print", <<"skipping publish">>, TRUE)

\* update_oled: one call to the display when there is one; its failure is
\* caught.
update_oled(n, values, ok) ==
    IF ~sensor_status["oled"] THEN n ELSE Call(n, "oled.show", values, ok)

\* Lines 721-756: averages, display, publish, clear.
PublishStep ==
    /\ pc = "publish"
    /\ IF Elapsed(last_publish_time, PUBLISH_INTERVAL)
       THEN \E oks \in PublishOutcomes, okOled \in Outcomes("oled") :
              LET values == << Average(temp_readings), Average(hum_readings),
                               Average(lux_readings),
                               Average(moisture_readings) >>
                  n0 == update_oled(Net, values, okOled)
                  n1 == Call(n0, "print", <<"averages", values>>, TRUE)
                  n2 == publish_sensor_data(n1, values, oks)
                  n3 == MarkPublished(n2, n2.ret)
              IN  /\ Step(n3, "sleep")
                  /\ temp_readings' = Cleared(temp_readings)
                  /\ hum_readings' = Cleared(hum_readings)
                  /\ lux_readings' = Cleared(lux_readings)
                  /\ moisture_readings' = Cleared(moisture_readings)
                  /\ last_publish_time' = current_time
       ELSE /\ Step(Net, "sleep")
            /\ UNCHANGED <<windowVars, last_publish_time>>
    /\ UNCHANGED <<sensor_status, failed_sensor_reads, current_time,
                   last_gc_time, last_connection_check, last_status_update,
                   last_sensor_read_time, faults>>

\* Line 758: the sleep that ends the tick; the clock moves on by d seconds.
Sleep(d) ==
    /\ pc = "sleep"
    /\ clock + d <= MaxTime
    /\ clock' = clock + d
    /\ log' = <<>>
    /\ status' = None
    /\ pc' = "tick"
    /\ UNCHANGED <<wlan, mqtt_client, connection_status, sensor_status,
                   failed_sensor_reads, current_time, timerVars, windowVars,
                   faults>>

Next ==
    \/ StartupWifi
    \/ StartupMqtt
    \/ Keepalive
    \/ GcStep
    \/ CheckStep
    \/ StatusStep
    \/ ReadStep
    \/ PublishStep
    \/ \E d \in Delays : Sleep(d)

Spec == Init /\ [][Next]_vars

---------------------------------------------------------------------------
(* Vocabulary of the properties *)

\* The calls of the step just taken that satisfy P.
Calls(l, P(_)) == { i \in DOMAIN l : P(l[i]) }

IsSessionCall(e) == e.op \in {"mqtt.connect", "mqtt.ping"}
IsConnect(e) == e.op = "mqtt.connect"
IsPingOk(e) == e.op = "mqtt.ping" /\ e.ok
IsPublish(e) == e.op = "mqtt.publish"
IsDataPublish(e) ==
    /\ e.op = "mqtt.publish"
    /\ e.arg[1] \in {"temperature", "humidity", "lux", "soil_moisture"}
IsAverages(e) == e.op = "print" /\ e.arg[1] = "averages"

\* The step about to be taken is a connection check / publish step that runs.
CheckRuns ==
    pc = "check" /\ Elapsed(last_connection_check, CONNECTION_CHECK_INTERVAL)
PublishRuns == pc = "publish" /\ Elapsed(last_publish_time, PUBLISH_INTERVAL)
StatusRuns == pc = "status" /\ Elapsed(last_status_update, STATUS_UPDATE_INTERVAL)
ReadRuns == pc = "read" /\ Elapsed(last_sensor_read_time, SENSOR_READ_INTERVAL)

\* The publish step has just run.
PublishRan == pc = "sleep" /\ Calls(log, IsAverages) # {}

Windows == <<temp_readings, hum_readings, lux_readings, moisture_readings>>

---------------------------------------------------------------------------
(* C1: in every reachable state the session-up flag is true only if the
   link-up flag is true. *)
C1_SessionUpOnlyIfLinkUp ==
    connection_status.mqtt => connection_status.wifi

(* C2: no session call (session connect, session ping) is made while the
   link-up flag is false. *)
C2_NoSessionCallWhileLinkDown ==
    \A i \in Calls(log, IsSessionCall) : log[i].wifi

(* C3: a connection check that starts with the session flag down and finds
   the link up makes a session connect attempt, unless its probe finds the
   session up. *)
C3_DownSessionIsReconnected ==
    [][ (CheckRuns /\ ~connection_status.mqtt /\ connection_status'.wifi)
          => (Calls(log', IsPingOk) # {} \/ Calls(log', IsConnect) # {}) ]_vars

---------------------------------------------------------------------------
\* The transport publishes of quantity i made by the step, and the failed ones.
Attempts(l, i) ==
    Calls(l, LAMBDA e : IsPublish(e) /\ e.arg[1] = SensorTypes[i])
FailedAttempts(l, i) == { k \in Attempts(l, i) : ~l[k].ok }
Averages == [i \in 1..4 |-> Average(Windows[i])]

(* C4, as claimed: in a publish step that starts with the session up, every
   non-absent quantity gets a transport publish attempt. *)
C4_EveryQuantityAttempted ==
    [][ (PublishRuns /\ is_mqtt_connected(Net))
          => \A i \in 1..4 :
               Averages[i] # None => Attempts(log', i) # {} ]_vars

(* C4, amended: in a publish step that starts with the session up, a
   non-absent quantity gets its transport publish attempt exactly when no
   earlier quantity's transport publish failed in the step; absent
   quantities get none. *)
C4_AttemptedUntilFirstFailure ==
    [][ (PublishRuns /\ is_mqtt_connected(Net))
          => \A i \in 1..4 :
               Cardinality(Attempts(log', i)) =
                 IF /\ Averages[i] # None
                    /\ \A j \in 1..(i - 1) : FailedAttempts(log', j) = {}
                 THEN 1 ELSE 0 ]_vars

\* A publish step ran in which the temperature publish failed and the
\* humidity, though averaged, was never handed to the transport.
C4_Witness ==
    /\ PublishRan
    /\ FailedAttempts(log, 1) # {}
    /\ Attempts(log, 2) = {}
    /\ \E i \in Calls(log, IsAverages) : log[i].arg[2][2] # None

---------------------------------------------------------------------------
(* The health evaluation on its own: publish_device_status called once in a
   state drawn from the flags, the devices found at startup, the failure
   counters and the two timestamps it reads. *)

StatusCounters == {0, 4, 5, 6}
StatusClocks == {400, 700, 701, 800}
StatusLastPublish == {0, 400}

InitStatus ==
    /\ pc = "publish_device_status"
    /\ wlan = "WLAN"
    /\ mqtt_client \in {"None", "MQTTClient"}
    /\ \E w \in BOOLEAN, m \in BOOLEAN, t \in StatusLastPublish :
         /\ m => mqtt_client # "None"
         /\ connection_status =
                [wifi |-> w, mqtt |-> m, last_successful_publish |-> t]
    /\ \E up \in SUBSET Sensors : sensor_status = [d \in Devices |-> d \in up]
    /\ failed_sensor_reads \in [Sensors -> StatusCounters]
    /\ \A s \in Sensors : ~sensor_status[s] => failed_sensor_reads[s] = 0
    /\ clock \in StatusClocks
    /\ current_time = clock
    /\ last_gc_time = clock
    /\ last_connection_check = clock
    /\ last_status_update = clock
    /\ last_sensor_read_time = clock
    /\ last_publish_time = clock
    /\ temp_readings = <<>>
    /\ hum_readings = <<>>
    /\ lux_readings = <<>>
    /\ moisture_readings = <<>>
    /\ status = None
    /\ log = <<>>
    /\ faults = {}

EvalStatus ==
    /\ pc = "publish_device_status"
    /\ \E n \in PublishDeviceStatus(Net) : SetNet(n)
    /\ pc' = "evaluated"
    /\ UNCHANGED <<sensor_status, failed_sensor_reads, current_time,
                   timerVars, windowVars, faults>>

NextStatus == EvalStatus

SpecStatus == InitStatus /\ [][NextStatus]_vars

\* The inputs of the evaluation, as the claims name them.
LinkUp == connection_status.wifi
SessionUp == connection_status.mqtt
Known == { s \in Sensors : sensor_status[s] }
Healthy == { s \in Known : failed_sensor_reads[s] < 5 }
SinceLastPublish == clock - connection_status.last_successful_publish

(* C5: the evaluated status is the first matching rule in the order LinkDown,
   SessionDown, AllSensorsFailed, PartialDegradation, PublishStale (more than
   300 since the last successful publish), Online. *)
C5_FirstMatchingRule ==
    pc = "evaluated" =>
      /\ ~LinkUp => status = <<"WiFi Disconnected">>
      /\ (LinkUp /\ ~SessionUp) => status = <<"MQTT Disconnected">>
      /\ (LinkUp /\ SessionUp /\ Healthy = {})
            => status = <<"All Sensors Failed">>
      /\ (LinkUp /\ SessionUp /\ Healthy # {} /\ Healthy # Known)
            => status[1] = "Partial"
      /\ (LinkUp /\ SessionUp /\ Healthy # {} /\ Healthy = Known
            /\ SinceLastPublish > 300) => status = <<"Publish Timeout">>
      /\ (LinkUp /\ SessionUp /\ Healthy # {} /\ Healthy = Known
            /\ SinceLastPublish <= 300) => status = <<"Online">>

\* All sensors healthy, link and session up, last publish 400 ago: stale.
C5_Witness ==
    /\ pc = "evaluated"
    /\ LinkUp /\ SessionUp
    /\ Known = Sensors /\ Healthy = Sensors
    /\ SinceLastPublish = 400
    /\ status = <<"Publish Timeout">>

(* C6: with link and session up and 0 < h < total, where h counts the known
   sensors whose failure counter is below 5, the status is
   PartialDegradation(h, total), whatever the time since the last publish. *)
C6_PartialDegradation ==
    (pc = "evaluated" /\ LinkUp /\ SessionUp
       /\ 0 < Cardinality(Healthy) /\ Cardinality(Healthy) < Cardinality(Known))
      => status = <<"Partial", Cardinality(Healthy), Cardinality(Known)>>

\* 2 of 3 sensors healthy, the third at 5 failures, publish long ago.
C6_Witness ==
    /\ pc = "evaluated"
    /\ LinkUp /\ SessionUp
    /\ Known = Sensors
    /\ failed_sensor_reads["dht11"] = 5
    /\ Cardinality(Healthy) = 2
    /\ SinceLastPublish > 300
    /\ status = <<"Partial", 2, 3>>

---------------------------------------------------------------------------
\* The read of sensor s made by the step, and whether it raised.
ReadsOf(l, s) == Calls(l, LAMBDA e : e.op = "read" /\ e.arg[1] = s)
RaisedIn(l, s) == \E i \in ReadsOf(l, s) : l[i].arg[2]

(* C7: a failed read adds one to the sensor's counter and a successful read
   sets it to 0, and nothing else changes it, so the counter is the number of
   failed reads since the last successful one; a known sensor whose counter
   has reached 5 or more is not counted as working, one whose counter is 0
   is. *)
C7_ConsecutiveFailures ==
    [][ \A s \in Sensors :
          /\ failed_sensor_reads'[s] =
               IF ReadRuns
               THEN (IF RaisedIn(log', s) THEN failed_sensor_reads[s] + 1
                     ELSE 0)
               ELSE failed_sensor_reads[s]
          /\ (sensor_status[s] /\ failed_sensor_reads'[s] >= 5)
                => ~WorkingSensor(s)'
          /\ (sensor_status[s] /\ failed_sensor_reads'[s] = 0)
                => WorkingSensor(s)' ]_vars

\* A read step in which the dht11 read failed for at least the fifth time in
\* a row while the bh1750 read succeeded.
C7_Witness ==
    /\ pc = "publish"
    /\ RaisedIn(log, "dht11")
    /\ failed_sensor_reads["dht11"] >= 5
    /\ ~WorkingSensor("dht11")
    /\ ReadsOf(log, "bh1750") # {} /\ ~RaisedIn(log, "bh1750")
    /\ failed_sensor_reads["bh1750"] = 0

(* C8: at the end of every publish step the four windows are empty, whatever
   the outcome of the publishes. *)
C8_WindowsEmptyAfterPublish ==
    PublishRan => \A i \in 1..4 : Windows[i] = <<>>

\* A publish step ran with a non-absent average whose publish failed.
C8_Witness ==
    /\ PublishRan
    /\ \E i \in Calls(log, IsAverages) : log[i].arg[2][1] # None
    /\ FailedAttempts(log, 1) # {}
    /\ \A i \in 1..4 : Windows[i] = <<>>

---------------------------------------------------------------------------
ConnectivityUnchanged ==
    /\ connection_status' = connection_status
    /\ mqtt_client' = mqtt_client
    /\ wlan' = wlan
OkDataPublishes(l) == Calls(l, LAMBDA e : IsDataPublish(e) /\ e.ok)
Printed(l, what) ==
    Calls(l, LAMBDA e : e.op = "print" /\ e.arg = what) # {}

(* C9: publish fails closed.  In a status step the one publish makes no
   transport call and changes no connectivity state when the session is not
   up; when it is up the transport is called once, and a failure of the call
   puts the session flag down while a success changes nothing.  In a publish
   step the number of publishes that returned true is the number of
   transport calls that succeeded. *)
C9_PublishFailsClosed ==
    [][ /\ (StatusRuns /\ ~is_mqtt_connected(Net))
            => (Calls(log', IsPublish) = {} /\ ConnectivityUnchanged)
        /\ (StatusRuns /\ is_mqtt_connected(Net))
            => /\ Cardinality(Calls(log', IsPublish)) = 1
               /\ \A i \in Calls(log', IsPublish) :
                    IF log'[i].ok
                    THEN ConnectivityUnchanged
                    ELSE ~connection_status'.mqtt
        /\ PublishRuns
            => LET k == Cardinality(OkDataPublishes(log'))
               IN  IF k > 0
                   THEN Printed(log', <<"published", k>>)
                   ELSE Printed(log', <<"skipping publish">>) ]_vars

\* A status step has just published with the session up, the transport call
\* failed and the session flag is down.
C9_Witness ==
    /\ pc = "read"
    /\ status # None
    /\ \E i \in Calls(log, IsPublish) : ~log[i].ok
    /\ mqtt_client # "None"
    /\ ~connection_status.mqtt

(* C10: the last-successful-publish timestamp changes only in a publish step
   in which at least one quantity was published successfully, and is then
   the tick's time; no other step changes it, and it never decreases. *)
C10_LastSuccessfulPublish ==
    [][ /\ (PublishRuns /\ OkDataPublishes(log') # {})
            => connection_status'.last_successful_publish = current_time
        /\ ~(PublishRuns /\ OkDataPublishes(log') # {})
            => connection_status'.last_successful_publish =
                 connection_status.last_successful_publish
        /\ connection_status'.last_successful_publish >=
             connection_status.last_successful_publish ]_vars

\* A publish step has just set the timestamp to the tick's time after an
\* earlier publish step had set it.
C10_Witness ==
    /\ PublishRan
    /\ OkDataPublishes(log) # {}
    /\ connection_status.last_successful_publish = current_time
    /\ current_time > 400

(* C11: the keepalive is invoked in a tick only when the session is up (flag
   set and client present), and then exactly once; when it fails the session
   flag is down after the step; the keepalive step makes no session connect
   attempt; and the tick goes on to its next activity. *)
IsCheckMsg(e) == e.op = "mqtt.check_msg"
IsFailedCheckMsg(e) == e.op = "mqtt.check_msg" /\ ~e.ok

C11_Keepalive ==
    [][ pc = "tick" =>
          /\ Cardinality(Calls(log', IsCheckMsg)) =
                 IF connection_status.mqtt /\ mqtt_client # "None" THEN 1 ELSE 0
          /\ Calls(log', IsFailedCheckMsg) # {} => ~connection_status'.mqtt
          /\ Calls(log', IsFailedCheckMsg) = {} =>
                 connection_status' = connection_status
          /\ Calls(log', IsConnect) = {}
          /\ mqtt_client' = mqtt_client
          /\ pc' = "gc" ]_vars

\* A keepalive has failed: the flag is down, the client is kept, and the tick
\* is at its next activity.
C11_Witness ==
    /\ pc = "gc"
    /\ Calls(log, IsFailedCheckMsg) # {}
    /\ ~connection_status.mqtt
    /\ mqtt_client # "None"

(* C12: each of the five last-fired timestamps (garbage collection,
   connectivity check, status report, sensor read, publish) changes only in
   its own activity's step; the activity fires exactly when the tick's time
   minus its last-fired time is at least its interval, and then sets the
   timestamp to the tick's time; the status-report timer is set whether or
   not the status publish succeeded. *)
Due(own, last, interval) == pc = own /\ current_time - last >= interval
IsGc(e) == e.op = "gc.collect"
IsRead(e) == e.op = "read"
IsFailedStatusPublish(e) ==
    e.op = "mqtt.publish" /\ e.arg[1] = "status" /\ ~e.ok

C12_TimersAreIndependent ==
    [][ /\ last_gc_time' =
             IF Due("gc", last_gc_time, GC_INTERVAL)
             THEN current_time ELSE last_gc_time
        /\ last_connection_check' =
             IF Due("check", last_connection_check, CONNECTION_CHECK_INTERVAL)
             THEN current_time ELSE last_connection_check
        /\ last_status_update' =
             IF Due("status", last_status_update, STATUS_UPDATE_INTERVAL)
             THEN current_time ELSE last_status_update
        /\ last_sensor_read_time' =
             IF Due("read", last_sensor_read_time, SENSOR_READ_INTERVAL)
             THEN current_time ELSE last_sensor_read_time
        /\ last_publish_time' =
             IF Due("publish", last_publish_time, PUBLISH_INTERVAL)
             THEN current_time ELSE last_publish_time
        /\ pc = "gc" =>
             (Calls(log', IsGc) # {} <=> Due("gc", last_gc_time, GC_INTERVAL))
        /\ pc = "status" =>
             (status' # None <=>
                Due("status", last_status_update, STATUS_UPDATE_INTERVAL))
        /\ pc = "read" =>
             (Calls(log', IsRead) # {} <=>
                Due("read", last_sensor_read_time, SENSOR_READ_INTERVAL))
        /\ pc = "publish" =>
             (Calls(log', IsAverages) # {} <=>
                Due("publish", last_publish_time, PUBLISH_INTERVAL))
        /\ pc \notin {"tick"} => current_time' = current_time ]_vars

\* The periodic status report has run, its publish failed, and its timer is
\* set to the tick's time, while the publish of an earlier tick is not due.
C12_Witness ==
    /\ pc = "read"
    /\ Calls(log, IsFailedStatusPublish) # {}
    /\ last_status_update = current_time
    /\ last_publish_time < current_time
    /\ last_publish_time > 0

---------------------------------------------------------------------------
(* connect_wifi on its own: it is called in any state of the connectivity
   globals, and the link can come up at any check of the retry loop or not
   at all.  The caller is the startup code, which reports a False return. *)

\* The last check of the retry loop at which the link can first be seen up.
MaxUpAt == 12
WifiClocks == {400, 500}

InitWifi ==
    /\ pc = "connect_wifi"
    /\ wlan \in {"None", "WLAN"}
    /\ \E c \in {<<"None", FALSE>>, <<"MQTTClient", FALSE>>,
                  <<"MQTTClient", TRUE>>}, w \in BOOLEAN :
          /\ mqtt_client = c[1]
          /\ connection_status =
                [wifi |-> w, mqtt |-> c[2], last_successful_publish |-> 0]
    /\ sensor_status = [d \in Devices |-> TRUE]
    /\ failed_sensor_reads = [s \in Sensors |-> 0]
    /\ clock \in WifiClocks
    /\ current_time = 0
    /\ last_gc_time = 0
    /\ last_connection_check = 0
    /\ last_status_update = 0
    /\ last_sensor_read_time = 0
    /\ last_publish_time = 0
    /\ temp_readings = <<>>
    /\ hum_readings = <<>>
    /\ lux_readings = <<>>
    /\ moisture_readings = <<>>
    /\ status = None
    /\ log = <<>>
    /\ faults = {"link"}

CallConnectWifi ==
    /\ pc = "connect_wifi"
    /\ \E n \in ConnectWifiFrom(Net, 0..MaxUpAt) :
          Step(StartupLink(n), "returned")
    /\ UNCHANGED <<sensor_status, failed_sensor_reads, current_time,
                   timerVars, windowVars, faults>>

NextWifi == CallConnectWifi

SpecWifi == InitWifi /\ [][NextWifi]_vars

(* C13: connect_wifi always returns.  It observes the link at its start and
   at its end.  When the link is up at the start it makes no connection
   attempt and does not wait (and returns true, the link being up at the
   end); otherwise it makes one connection attempt and waits for at most 10
   rounds of 2 seconds, and returns false if the link is still down.  The
   return value and the link-up flag both equal the link state observed at
   the end. *)
IsIsConnected(e) == e.op = "wlan.isconnected"
IsWlanConnect(e) == e.op = "wlan.connect"
IsLinkFailedReport(e) ==
    e.op = "print" /\ e.arg = <<"Initial WiFi connection failed">>
ReturnedFalse(l) == Calls(l, IsLinkFailedReport) # {}
Rounds == { WIFI_RETRY_SLEEP * k : k \in 0..10 }

C13_EnsureLinkTerminates ==
    [][ pc = "connect_wifi" =>
          LET obs == Calls(log', IsIsConnected)
              first == log'[1]
              last == log'[CHOOSE i \in obs : \A j \in obs : j <= i]
          IN  /\ pc' = "returned"
              /\ Cardinality(obs) = 2
              /\ IsIsConnected(first)
              /\ first.ok => /\ Calls(log', IsWlanConnect) = {}
                             /\ clock' = clock
              /\ first.ok /\ last.ok => ~ReturnedFalse(log')
              /\ ~first.ok => /\ Cardinality(Calls(log', IsWlanConnect)) = 1
                              /\ clock' - clock \in Rounds
              /\ ~last.ok => ReturnedFalse(log')
              /\ ReturnedFalse(log') <=> ~last.ok
              /\ connection_status'.wifi = last.ok
              /\ connection_status'.mqtt = connection_status.mqtt
              /\ mqtt_client' = mqtt_client ]_vars

\* The link was down and stayed down through all 10 rounds: connect_wifi
\* has returned False after 20 seconds.
C13_Witness ==
    /\ pc = "returned"
    /\ clock = 420
    /\ Calls(log, IsWlanConnect) # {}
    /\ ReturnedFalse(log)
    /\ ~connection_status.wifi

(* C14: in every connectivity check that runs, if the link-up flag or the
   session-up flag at the end of the check differs from its value at the
   start, publish_device_status has been called within that check, whether
   or not the status timer is due. *)
C14_ChangeIsReported ==
    [][ ( /\ CheckRuns
          /\ \/ connection_status'.wifi # connection_status.wifi
             \/ connection_status'.mqtt # connection_status.mqtt )
        => status' # None ]_vars

\* A check has reported a change without a reconnect, in a tick in which
\* the periodic status report is not due.
C14_Witness ==
    /\ pc = "status"
    /\ last_connection_check = current_time
    /\ status # None
    /\ Calls(log, IsConnect) = {}
    /\ current_time - last_status_update < STATUS_UPDATE_INTERVAL
    /\ last_status_update > 0

(* C15: in every step, a successful session connect (mqtt.connect and its
   test publish both succeed), at startup or in a connection check, is
   followed at once by the five discovery publishes and then by the status
   publish, in that order; after a failed connect attempt the step makes no
   discovery publish and no status publish, and a status report is evaluated
   in that step only by the connection check's change rule. *)
IsDiscoveryPublish(e) == e.op = "mqtt.publish" /\ e.arg[1] = "config"
IsStatusPublish(e) == e.op = "mqtt.publish" /\ e.arg[1] = "status"
IsTestPublishOk(e) == e.op = "mqtt.publish" /\ e.arg[1] = "test" /\ e.ok
ConnectSucceeded(l, i) ==
    l[i].ok /\ i + 1 <= Len(l) /\ IsTestPublishOk(l[i + 1])

C15_DiscoveryThenStatus ==
    [][ \A i \in Calls(log', IsConnect) :
          IF ConnectSucceeded(log', i)
          THEN /\ i + 7 <= Len(log')
               /\ \A k \in 1..5 :
                     /\ IsDiscoveryPublish(log'[i + 1 + k])
                     /\ log'[i + 1 + k].arg[2] = DiscoveryIds[k]
               /\ IsStatusPublish(log'[i + 7])
               /\ status' # None
          ELSE /\ \A j \in (i + 1)..Len(log') :
                     ~IsDiscoveryPublish(log'[j]) /\ ~IsStatusPublish(log'[j])
               /\ status' # None =>
                     /\ CheckRuns
                     /\ \/ connection_status'.wifi # connection_status.wifi
                        \/ connection_status'.mqtt # connection_status.mqtt
      ]_vars

\* A connection check has reconnected the session after a failed ping and
\* has made the discovery publishes and the status publish.
C15_Witness ==
    /\ pc = "status"
    /\ \E i \in Calls(log, IsConnect) :
          /\ ConnectSucceeded(log, i)
          /\ IsStatusPublish(log[i + 7])
          /\ \E j \in 1..(i - 1) : log[j].op = "mqtt.ping" /\ ~log[j].ok

(* C16, as stated: startup attempts link, session, discovery announcement
   and status report exactly once each before the first tick, whatever the
   outcome of the preceding attempts. *)
IsDiscoverySkipped(e) ==
    e.op = "print" /\ e.arg = <<"skipping discovery config">>
DiscoveryAttempted(l) ==
    Calls(l, IsDiscoveryPublish) # {} \/ Calls(l, IsDiscoverySkipped) # {}
LinkAttemptedOnce(l) ==
    Cardinality(Calls(l, IsIsConnected)) = 2 /\ IsIsConnected(l[1])

C16_FourUnconditionalAttempts ==
    [][ /\ pc = "connect_wifi" => LinkAttemptedOnce(log')
        /\ pc = "connect_mqtt" =>
              /\ Cardinality(Calls(log', IsConnect)) = 1
              /\ DiscoveryAttempted(log')
              /\ status' # None ]_vars

(* C16, amended: before the first tick startup calls connect_wifi exactly
   once and then makes exactly one session connect attempt, whatever
   connect_wifi returned; the discovery announcement and the status report
   are attempted, once each and in that order, exactly when the session
   connect succeeded. *)
C16_DiscoveryAndStatusOnSuccess ==
    [][ /\ pc = "connect_wifi" =>
              LinkAttemptedOnce(log') /\ pc' = "connect_mqtt"
        /\ pc = "connect_mqtt" =>
              /\ Cardinality(Calls(log', IsConnect)) = 1
              /\ current_time' = 0
              /\ pc' = "tick"
              /\ \A i \in Calls(log', IsConnect) :
                    IF ConnectSucceeded(log', i)
                    THEN /\ Cardinality(Calls(log', IsDiscoveryPublish)) = 5
                         /\ Cardinality(Calls(log', IsStatusPublish)) = 1
                         /\ \A d \in Calls(log', IsDiscoveryPublish) :
                              \A t \in Calls(log', IsStatusPublish) : d < t
                         /\ status' # None
                    ELSE /\ ~DiscoveryAttempted(log')
                         /\ Calls(log', IsStatusPublish) = {}
                         /\ status' = None ]_vars

\* Startup has ended with the link down and a failed session connect:
\* neither discovery nor status was attempted.
C16_Witness ==
    /\ pc = "tick"
    /\ current_time = 0
    /\ ~connection_status.wifi
    /\ \E i \in Calls(log, IsConnect) : ~ConnectSucceeded(log, i)
    /\ ~DiscoveryAttempted(log)
    /\ status = None

---------------------------------------------------------------------------
(* get_soil_moisture_percent on its own: a calibration with dry > wet is
   fixed at the start, and raw values of the 16-bit converter are then
   converted one after the other. *)

\* The number of conversions in a run.
MaxSoilReads == 2
Calibrations == { <<41000, 18000>>, <<65535, 0>>, <<1001, 1000>> }
SoilRaws ==
    { 0, 999, 1000, 1001, 1002, 17999, 18000, 18001, 18230, 18231,
      29499, 29500, 29501, 40999, 41000, 41001, 65534, 65535 }

InitSoil ==
    /\ pc = "read_sensors_once"
    /\ wlan = "None"
    /\ mqtt_client = "None"
    /\ connection_status =
          [wifi |-> FALSE, mqtt |-> FALSE, last_successful_publish |-> 0]
    /\ sensor_status = [d \in Devices |-> TRUE]
    /\ failed_sensor_reads = [s \in Sensors |-> 0]
    /\ clock = 0
    /\ current_time = 0
    /\ last_gc_time = 0
    /\ last_connection_check = 0
    /\ last_status_update = 0
    /\ last_sensor_read_time = 0
    /\ last_publish_time = 0
    /\ temp_readings = <<>>
    /\ hum_readings = <<>>
    /\ lux_readings = <<>>
    /\ moisture_readings = <<>>
    /\ status = None
    /\ \E c \in Calibrations :
          log = << [op |-> "config", arg |-> c, ok |-> TRUE, wifi |-> FALSE] >>
    /\ faults = {}

\* Lines 583-591: one raw value is read and converted.
ConvertSoil ==
    /\ pc = "read_sensors_once"
    /\ Len(moisture_readings) < MaxSoilReads
    /\ \E raw \in SoilRaws :
          /\ log' = Append(log, [op |-> "read_u16", arg |-> <<raw>>,
                                 ok |-> TRUE, wifi |-> FALSE])
          /\ moisture_readings' =
                Append(moisture_readings,
                       get_soil_moisture_percent(raw, log[1].arg[1],
                                                 log[1].arg[2]))
    /\ UNCHANGED <<pc, netVars, sensor_status, failed_sensor_reads,
                   current_time, timerVars, temp_readings, hum_readings,
                   lux_readings, status, faults>>

NextSoil == ConvertSoil

SpecSoil == InitSoil /\ [][NextSoil]_vars

(* C17: for every calibration with dry > wet and every raw value, the
   soil-moisture percent is an integer in 0..100: 0 when raw >= dry, 100
   when raw <= wet, and in between the quotient (dry - raw) * 100 /
   (dry - wet) truncated to an integer; it does not increase when raw
   increases; with dry = 41000 and wet = 18000, raw = 29500 gives 50. *)
C17_SoilMoisturePercent ==
    LET dry == log[1].arg[1]
        wet == log[1].arg[2]
        raw(i) == log[i + 1].arg[1]
        conv == DOMAIN moisture_readings
    IN  /\ dry > wet
        /\ \A i \in conv :
              LET p == moisture_readings[i]
              IN  /\ p \in 0..100
                  /\ raw(i) >= dry => p = 0
                  /\ raw(i) <= wet => p = 100
                  /\ (wet < raw(i) /\ raw(i) < dry) =>
                        /\ p * (dry - wet) <= (dry - raw(i)) * 100
                        /\ (dry - raw(i)) * 100 < (p + 1) * (dry - wet)
                  /\ (dry = 41000 /\ wet = 18000 /\ raw(i) = 29500) => p = 50
        /\ \A i, j \in conv :
              raw(i) <= raw(j) => moisture_readings[i] >= moisture_readings[j]

\* With the default calibration, 29500 has been converted to 50 and then
\* 18231 to 98.
C17_Witness ==
    /\ pc = "read_sensors_once"
    /\ Len(log) = 3
    /\ log[1].arg = <<41000, 18000>>
    /\ log[2].arg = <<29500>>
    /\ log[3].arg = <<18231>>
    /\ moisture_readings = <<50, 98>>

---------------------------------------------------------------------------
(* The loop on its own, every kind of fault possible in the same tick: a
   tick starts with every activity due, in any of the states the
   connectivity globals can have at the start of a tick. *)

TickClock == 700
TickNets ==
    { <<"None", "None", FALSE, FALSE>>, <<"WLAN", "None", FALSE, FALSE>>,
      <<"WLAN", "None", TRUE, FALSE>>, <<"WLAN", "MQTTClient", TRUE, TRUE>>,
      <<"WLAN", "MQTTClient", TRUE, FALSE>>,
      <<"WLAN", "MQTTClient", FALSE, TRUE>> }

InitTick ==
    /\ pc = "tick"
    /\ \E c \in TickNets :
          /\ wlan = c[1]
          /\ mqtt_client = c[2]
          /\ connection_status =
                [wifi |-> c[3], mqtt |-> c[4], last_successful_publish |-> 0]
    /\ sensor_status = [d \in Devices |-> TRUE]
    /\ failed_sensor_reads = [s \in Sensors |-> 0]
    /\ clock = TickClock
    /\ current_time = 0
    /\ last_gc_time = 0
    /\ last_connection_check = 0
    /\ last_status_update = 0
    /\ last_sensor_read_time = 0
    /\ last_publish_time = 0
    /\ temp_readings = <<>>
    /\ hum_readings = <<>>
    /\ lux_readings = <<>>
    /\ moisture_readings = <<>>
    /\ status = None
    /\ log = <<>>
    /\ faults = FaultKinds

NextTick ==
    \/ Keepalive
    \/ GcStep
    \/ CheckStep
    \/ StatusStep
    \/ ReadStep
    \/ PublishStep
    \/ \E d \in Delays : Sleep(d)

SpecTick == InitTick /\ [][NextTick]_vars

(* C18: nothing in the loop is fatal.  Whatever sensor reads, keepalive,
   link reconnect, session probe, session reconnect, discovery and status
   publishes, data publishes and display update fail in a tick, no exception
   leaves the loop, every activity of the tick can be taken and hands over
   to the next one, and the sleep that ends the tick can be taken (as long
   as the clock is within the model's horizon) and leads to the next
   tick. *)
Activities == <<"tick", "gc", "check", "status", "read", "publish", "sleep">>
Following(p) ==
    IF p = "sleep" THEN "tick"
    ELSE Activities[1 + CHOOSE i \in 1..6 : Activities[i] = p]
InTick(p) == \E i \in 1..6 : Activities[i] = p

C18_NothingIsFatal ==
    /\ [](pc # "crashed")
    /\ [](InTick(pc) => ENABLED NextTick)
    /\ []((pc = "sleep" /\ clock <= MaxTime) => ENABLED NextTick)
    /\ [][ (InTick(pc) \/ pc = "sleep") => pc' = Following(pc) ]_vars

\* A tick has reached its sleep although the link is down after this tick's
\* connection check, a sensor read failed, the display update failed and a
\* data publish failed.
IsFailedOled(e) == e.op = "oled.show" /\ ~e.ok
IsFailedDataPublish(e) == IsDataPublish(e) /\ ~e.ok

C18_Witness ==
    /\ pc = "sleep"
    /\ last_connection_check = current_time
    /\ ~connection_status.wifi
    /\ failed_sensor_reads["dht11"] = 1
    /\ Calls(log, IsFailedOled) # {}
    /\ Calls(log, IsFailedDataPublish) # {}

(* C19: in a sensor-read step every sensor is read exactly once, whatever
   the outcomes of the other reads; the outcome of a sensor's read decides
   that sensor's counter only (one more after a failure, 0 after a success);
   connectivity, the other timers and the table of known sensors are
   unchanged; each value read successfully is appended to its own window and
   a failed read (or a missing sensor) appends nothing. *)
Appended(w1, w2, ok, V) ==
    IF ok
    THEN /\ Len(w2) = Len(w1) + 1
         /\ SubSeq(w2, 1, Len(w1)) = w1
         /\ w2[Len(w2)] \in V
    ELSE w2 = w1
ReadOk(l, s) == sensor_status[s] /\ ~RaisedIn(l, s)

C19_ReadsAreIndependent ==
    [][ ReadRuns =>
          /\ Len(log') = Cardinality(Sensors)
          /\ \A s \in Sensors :
                /\ Cardinality(ReadsOf(log', s)) = 1
                /\ failed_sensor_reads'[s] =
                     IF RaisedIn(log', s) THEN failed_sensor_reads[s] + 1
                     ELSE 0
          /\ Appended(temp_readings, temp_readings',
                      ReadOk(log', "dht11"), TempValues)
          /\ Appended(hum_readings, hum_readings',
                      ReadOk(log', "dht11"), HumValues)
          /\ Appended(lux_readings, lux_readings',
                      ReadOk(log', "bh1750"), LuxValues)
          /\ Appended(moisture_readings, moisture_readings',
                      ReadOk(log', "soil_moisture"), 0..100)
          /\ UNCHANGED <<netVars, sensor_status, current_time, last_gc_time,
                         last_connection_check, last_status_update,
                         last_publish_time>> ]_vars

\* A read step in which the dht11 read failed and the other two succeeded:
\* the lux and moisture windows have grown, the other two have not.
C19_Witness ==
    /\ pc = "publish"
    /\ RaisedIn(log, "dht11")
    /\ ~RaisedIn(log, "bh1750") /\ ~RaisedIn(log, "soil_moisture")
    /\ failed_sensor_reads["dht11"] = 1
    /\ failed_sensor_reads["bh1750"] = 0
    /\ Len(lux_readings) = 2 /\ Len(moisture_readings) = 2
    /\ Len(temp_readings) = 1 /\ Len(hum_readings) = 1

(* C20: a publish step computes each mean from the whole window as it is
   when the step starts and leaves the window empty, nothing being added in
   between; the read step of the same tick comes immediately before the
   publish step, so that its readings are in the windows the means are
   computed from; a read step only appends to the windows and no other step
   changes them.  Every reading is therefore part of exactly one mean. *)
PrintedAverages(l) == l[CHOOSE i \in Calls(l, IsAverages) : TRUE].arg[2]
IsMeanOf(v, w) ==
    IF w = <<>>
    THEN v = None
    ELSE /\ v # None
         /\ Val(v)[2] > 0
         /\ Val(v)[1] * Len(w) = Val(v)[2] * Sum(w)

C20_EveryReadingInOneMean ==
    [][ /\ PublishRuns =>
              /\ Cardinality(Calls(log', IsAverages)) = 1
              /\ Calls(log', IsRead) = {}
              /\ \A q \in 1..4 :
                    /\ IsMeanOf(PrintedAverages(log')[q], Windows[q])
                    /\ Windows'[q] = <<>>
        /\ pc = "read" => pc' = "publish"
        /\ ReadRuns =>
              \A q \in 1..4 :
                 /\ Len(Windows'[q]) >= Len(Windows[q])
                 /\ SubSeq(Windows'[q], 1, Len(Windows[q])) = Windows[q]
        /\ (~ReadRuns /\ ~PublishRuns) => Windows' = Windows ]_vars

\* A publish step has run in a tick that also read the sensors, after an
\* earlier publish: all four means are present and the windows are empty.
C20_Witness ==
    /\ PublishRan
    /\ last_sensor_read_time = current_time
    /\ last_publish_time = current_time
    /\ current_time >= 460
    /\ \A q \in 1..4 :
          PrintedAverages(log)[q] # None /\ Windows[q] = <<>>

---------------------------------------------------------------------------
(* The loop with ticks that follow each other closely: startup has
   succeeded, the clock is past every interval, and a tick takes one of a
   few short times, so that reads and publishes fall at every offset from
   each other.  The transport may fail. *)

\* The clock at the first tick.
WindowStart == 580
WindowDelays == {1, 6}

InitWindows ==
    /\ pc = "tick"
    /\ wlan = "WLAN"
    /\ mqtt_client = "MQTTClient"
    /\ connection_status =
          [wifi |-> TRUE, mqtt |-> TRUE, last_successful_publish |-> 0]
    /\ sensor_status = [d \in Devices |-> TRUE]
    /\ failed_sensor_reads = [s \in Sensors |-> 0]
    /\ clock = WindowStart
    /\ current_time = 0
    /\ last_gc_time = 0
    /\ last_connection_check = 0
    /\ last_status_update = 0
    /\ last_sensor_read_time = 0
    /\ last_publish_time = 0
    /\ temp_readings = <<>>
    /\ hum_readings = <<>>
    /\ lux_readings = <<>>
    /\ moisture_readings = <<>>
    /\ status = None
    /\ log = <<>>
    /\ faults \in {{}, {"session"}}

NextWindows ==
    \/ Keepalive
    \/ GcStep
    \/ CheckStep
    \/ StatusStep
    \/ ReadStep
    \/ PublishStep
    \/ \E d \in WindowDelays : Sleep(d)

SpecWindows == InitWindows /\ [][NextWindows]_vars

(* C21: in every reachable state, the clock being a non-decreasing integer,
   no quantity's window holds more readings than the sensor reads that fit
   in one publish interval plus one, ceil(PUBLISH_INTERVAL /
   SENSOR_READ_INTERVAL) + 1 = 11, also when publishes fail and when ticks
   are delayed. *)
MaxWindow ==
    (PUBLISH_INTERVAL + SENSOR_READ_INTERVAL - 1) \div SENSOR_READ_INTERVAL + 1

C21_WindowIsBounded ==
    \A q \in 1..4 : Len(Windows[q]) <= MaxWindow

\* The bound is reached: a window holds 11 readings when a publish is due,
\* no publish having succeeded so far and the session being down.
C21_Witness ==
    /\ pc = "publish"
    /\ MaxWindow = 11
    /\ Len(lux_readings) = 11
    /\ current_time - last_publish_time >= PUBLISH_INTERVAL
    /\ last_publish_time > 0
    /\ ~connection_status.mqtt
    /\ connection_status.last_successful_publish = 0

---------------------------------------------------------------------------
(* The publish step on its own: a publish is due, the windows hold any of a
   few lists of readings (empty ones included), the session is up, down with
   a client, or without a client, and the transport and the display may
   fail. *)

\* The time of the tick.
PublishClock == 700
TempWindows == { <<>>, <<20>>, <<20, 23>> }
HumWindows == { <<>>, <<50>> }
LuxWindows == { <<>>, <<10, 20, 30>>, <<10, 15>> }
MoistureWindows == { <<>>, <<50, 49, 0>> }
PublishSessions ==
    { <<"MQTTClient", TRUE>>, <<"MQTTClient", FALSE>>, <<"None", FALSE>> }

InitPublish ==
    /\ pc = "publish"
    /\ wlan = "WLAN"
    /\ \E c \in PublishSessions :
          /\ mqtt_client = c[1]
          /\ connection_status =
                [wifi |-> TRUE, mqtt |-> c[2], last_successful_publish |-> 0]
    /\ sensor_status = [d \in Devices |-> TRUE]
    /\ failed_sensor_reads = [s \in Sensors |-> 0]
    /\ clock = PublishClock
    /\ current_time = PublishClock
    /\ last_gc_time = PublishClock
    /\ last_connection_check = PublishClock
    /\ last_status_update = PublishClock
    /\ last_sensor_read_time = PublishClock
    /\ last_publish_time = PublishClock - PUBLISH_INTERVAL
    /\ temp_readings \in TempWindows
    /\ hum_readings \in HumWindows
    /\ lux_readings \in LuxWindows
    /\ moisture_readings \in MoistureWindows
    /\ status = None
    /\ log = <<>>
    /\ faults = {"session", "oled"}

NextPublish == PublishStep

SpecPublish == InitPublish /\ [][NextPublish]_vars

(* C22: at a publish step, a quantity whose window is empty has mean None
   and no publish is attempted for it; a quantity with readings has the
   arithmetic mean of exactly the readings of its window ([10, 20, 30] gives
   20), and that mean is the value of every publish attempted for it; the
   published count that is recorded is the number of quantities whose
   publish succeeded, and it is at most 4. *)
IsPublishedCount(e) == e.op = "print" /\ e.arg[1] = "published"

C22_MeansAndCount ==
    [][ PublishRuns =>
          LET means == PrintedAverages(log')
              k == Cardinality(OkDataPublishes(log'))
          IN  /\ \A q \in 1..4 :
                    /\ IsMeanOf(means[q], Windows[q])
                    /\ Windows[q] = <<>> => Attempts(log', q) = {}
                    /\ Windows[q] = <<10, 20, 30>> => means[q] = Some(<<20, 1>>)
                    /\ Cardinality(Attempts(log', q)) <= 1
                    /\ \A a \in Attempts(log', q) :
                          log'[a].arg[2] = Val(means[q])
              /\ k <= 4
              /\ k = Cardinality({ q \in 1..4 :
                                     /\ Windows[q] # <<>>
                                     /\ \E a \in Attempts(log', q) : log'[a].ok })
              /\ \A i \in Calls(log', IsPublishedCount) : log'[i].arg[2] = k
              /\ k > 0 <=> Calls(log', IsPublishedCount) # {}
              /\ k = 0 <=> Printed(log', <<"skipping publish">>) ]_vars

\* A publish step has run on windows of which one was empty and one was
\* [10, 20, 30]: the means are None and 20, and two publishes succeeded.
C22_Witness ==
    /\ PublishRan
    /\ PrintedAverages(log)[1] = None
    /\ PrintedAverages(log)[2] = Some(<<50, 1>>)
    /\ PrintedAverages(log)[3] = Some(<<20, 1>>)
    /\ PrintedAverages(log)[4] = None
    /\ Attempts(log, 1) = {}
    /\ Printed(log, <<"published", 2>>)

(* C23: the status "MQTT Disconnected" is never handed to the transport.  No
   step makes a status publish call that carries it; a status report that
   evaluates to it leaves the session flag down; and a periodic status
   report evaluated with the session flag down or the client missing makes
   no transport call at all. *)
SessionDownStatus == <<"MQTT Disconnected">>

C23_SessionDownIsNeverSent ==
    [][ /\ \A i \in Calls(log', IsStatusPublish) :
              log'[i].arg[2] # SessionDownStatus
        /\ status' = SessionDownStatus => ~connection_status'.mqtt
        /\ (StatusRuns /\ ~(connection_status.mqtt /\ mqtt_client # "None"))
              => Calls(log', IsPublish) = {}
        /\ (StatusRuns /\ connection_status.wifi /\ ~connection_status.mqtt)
              => status' = SessionDownStatus ]_vars

\* A periodic status report has evaluated to "MQTT Disconnected" with the
\* client present, and nothing was handed to the transport.
C23_Witness ==
    /\ pc = "read"
    /\ last_status_update = current_time
    /\ status = SessionDownStatus
    /\ mqtt_client # "None"
    /\ log = <<>>

---------------------------------------------------------------------------
(* The program from power-up with a clock that starts below or above the
   publish timeout; every sensor is present and only the transport may
   fail. *)

BootTimes == {250, 301}

InitBoot ==
    /\ pc = "connect_wifi"
    /\ wlan = "None"
    /\ mqtt_client = "None"
    /\ connection_status =
          [wifi |-> FALSE, mqtt |-> FALSE, last_successful_publish |-> 0]
    /\ sensor_status = [d \in Devices |-> TRUE]
    /\ failed_sensor_reads = [s \in Sensors |-> 0]
    /\ clock \in BootTimes
    /\ current_time = 0
    /\ last_gc_time = 0
    /\ last_connection_check = 0
    /\ last_status_update = 0
    /\ last_sensor_read_time = 0
    /\ last_publish_time = 0
    /\ temp_readings = <<>>
    /\ hum_readings = <<>>
    /\ lux_readings = <<>>
    /\ moisture_readings = <<>>
    /\ status = None
    /\ log = <<>>
    /\ faults = {"session"}

NextBoot ==
    \/ StartupWifi
    \/ StartupMqtt
    \/ Keepalive
    \/ GcStep
    \/ CheckStep
    \/ StatusStep
    \/ ReadStep
    \/ PublishStep
    \/ \E d \in Delays : Sleep(d)

SpecBoot == InitBoot /\ [][NextBoot]_vars

(* C24: the timestamp of the last successful publish is 0 at power-up and
   stays 0 until a data publish succeeds; a status report evaluated while it
   is 0 and the clock is above 300 is not "Online"; in particular the status
   report of a startup that begins with the clock above 300 is not
   "Online". *)
OnlineStatus == <<"Online">>

C24_NoOnlineBeforeFirstPublish ==
    [][ /\ pc = "connect_wifi" =>
              connection_status.last_successful_publish = 0
        /\ (connection_status.last_successful_publish = 0
               /\ OkDataPublishes(log') = {})
              => connection_status'.last_successful_publish = 0
        /\ ( /\ status' # None
             /\ connection_status'.last_successful_publish = 0
             /\ clock > PUBLISH_TIMEOUT )
              => status' # OnlineStatus
        /\ (pc = "connect_mqtt" /\ clock > PUBLISH_TIMEOUT)
              => status' # OnlineStatus ]_vars

\* Startup has connected the session with the clock above 300 and has sent
\* its status report, which is "Publish Timeout".
C24_Witness ==
    /\ pc = "tick"
    /\ current_time = 0
    /\ clock > PUBLISH_TIMEOUT
    /\ connection_status.last_successful_publish = 0
    /\ status = <<"Publish Timeout">>
    /\ \E i \in Calls(log, IsStatusPublish) : log[i].ok

====
